---- MODULE Spec2Model ----
(***************************************************************************)
(* Voting server of rabbit-net (server/main.go).                           *)
(*                                                                         *)
(* Two goroutines share the maps `votos` and `contagem` and the AMQP       *)
(* channel `ch`:                                                           *)
(*   - the main goroutine runs the loop `for msg := range msgs`            *)
(*     (lines 86-116), one vote at a time;                                 *)
(*   - the timer goroutine (lines 78-84) sleeps, then calls                *)
(*     enviarFinal(ch, contagem) and os.Exit(0).                           *)
(* Neither map is guarded by a lock, and enviarFinal receives the live     *)
(* map, which json.Marshal walks key by key inside publishJSON.            *)
(***************************************************************************)
EXTENDS Integers, Sequences, FiniteSets, TLC

VARIABLES
    votos,        \* map[string]string: voter -> option              (line 75)
    contagem,     \* map[string]int: option -> count                 (line 76)
    pcM,          \* position of the main goroutine
    cur,          \* the message the main loop is handling (msg / v)
    outcome,      \* how the main loop decided the current message
    bodyM,        \* body the main goroutine handed to PublishWithContext
    pcT,          \* position of the timer goroutine
    toRead,       \* keys json.Marshal has still to visit in the timer's walk
    buf,          \* key/value pairs the timer's json.Marshal has collected
    bodyT,        \* body the timer goroutine handed to PublishWithContext
    broadcast,    \* bodies PublishWithContext has returned for, in order
    pubErr,       \* error value of the last PublishWithContext (ignored)
    proc,         \* "running", "exit0" (os.Exit(0) / return), "fatal"
    recvLog,      \* history: messages taken from msgs, with their outcome
    pre,          \* history: <<votos, contagem>> when cur was received
    hist,         \* history: every value contagem has had in this run
    readCast,     \* history: len(votos) at each read of the timer's walk
    votosAtClose, \* history: votos when the timer woke up
    setup         \* history: how startup went: "ok" or the call that failed

vars == <<votos, contagem, pcM, cur, outcome, bodyM, pcT, toRead, buf, bodyT,
          broadcast, pubErr, proc, recvLog, pre, hist, readCast, votosAtClose,
          setup>>

----------------------------------------------------------------------------
\* Bounds of the model

\* number of messages the main loop takes from msgs in one run
MaxMsgs == 2

\* voter ids and options that clients send; a body without "userId" decodes
\* to the empty id
Voters == {"alice", ""}
SentOptions == {"A", "B", "Z"}

----------------------------------------------------------------------------
\* Values

EmptyMap == [k \in {} |-> 0]

\* a body json.Unmarshal rejects
Malformed == [ok |-> FALSE, UserID |-> "", Option |-> ""]

\* Voto values json.Unmarshal produces from well-formed bodies
Votos == [ok : {TRUE}, UserID : Voters, Option : SentOptions]

Msgs == Votos \cup {Malformed}

NoMsg == [ok |-> FALSE, UserID |-> "", Option |-> "-"]
\* what stands in a body for a field that json.Marshal left out
Absent == "<absent>"

NoBody == [tipo |-> "", userId |-> Absent, mensagem |-> Absent,
           resultado |-> EmptyMap, present |-> {}]

RECURSIVE SumOver(_, _)
SumOver(m, ks) ==
    IF ks = {} THEN 0
    ELSE LET k == CHOOSE x \in ks : TRUE IN m[k] + SumOver(m, ks \ {k})

\* sum of the values of a map
Sum(m) == SumOver(m, DOMAIN m)

\* the lookup that never finds the key
MapHasNever(m, k) == FALSE

\* Go map operations
MapHas(m, k) == k \in DOMAIN m
MapSet(m, k, v) == (k :> v) @@ m
MapGet0(m, k) == IF k \in DOMAIN m THEN m[k] ELSE 0

\* the options of the poll: the keys contagem is created with
PollOptions == {"A", "B", "C"}

\* contagem[v.Option] = 1 instead of ++ (a lost update)
MapIncrLost(m, k) == MapSet(m, k, 1)

\* contagem[v.Option]-- instead of ++
MapIncrDown(m, k) == MapSet(m, k, MapGet0(m, k) - 1)

\* contagem[v.Option] += 2 instead of ++
MapIncrTwo(m, k) == MapSet(m, k, MapGet0(m, k) + 2)

\* contagem[v.Option]++
MapIncr(m, k) == MapSet(m, k, MapGet0(m, k) + 1)

\* the validation left out
ValidOptionAny(o) == TRUE

\* v.Option != "A" && v.Option != "B" && v.Option != "C", negated
ValidOption(o) == ~(o # "A" /\ o # "B" /\ o # "C")

\* the validation placed before the duplicate check
DecideValidateFirst(vs, m) ==
    IF ~m.ok THEN "Dropped"
    ELSE IF ~ValidOption(m.Option) THEN "InvalidOption"
    ELSE IF MapHas(vs, m.UserID) THEN "AlreadyVoted"
    ELSE "Accepted"

\* the duplicate check left out
DecideNoDuplicateCheck(vs, m) ==
    IF ~m.ok THEN "Dropped"
    ELSE IF ~ValidOption(m.Option) THEN "InvalidOption"
    ELSE "Accepted"

\* lines 91-108: what the loop does with a message, given votos
Decide(vs, m) ==
    IF ~m.ok THEN "Dropped"
    ELSE IF MapHas(vs, m.UserID) THEN "AlreadyVoted"
    ELSE IF ~ValidOption(m.Option) THEN "InvalidOption"
    ELSE "Accepted"

----------------------------------------------------------------------------
\* Broadcast messages

BroadcastMsg(t, u, txt, res) ==
    [Tipo |-> t, UserID |-> u, Mensagem |-> txt, Result |-> res]

ConfirmacaoMsg(user) ==
    BroadcastMsg("confirmacao", user, "Voto registrado com sucesso.", EmptyMap)

\* the erro notification built without the voter's id
ErroMsgNoUser(user, texto) == BroadcastMsg("erro", "", texto, EmptyMap)

ErroMsg(user, texto) == BroadcastMsg("erro", user, texto, EmptyMap)

ParcialMsg(res) == BroadcastMsg("parcial", "", "", res)

FinalMsg(res) == BroadcastMsg("final", "", "", res)

\* json.Marshal(msg): the omitempty fields are left out when empty
Marshal(msg) ==
    [tipo |-> msg.Tipo,
     userId |-> IF msg.UserID # "" THEN msg.UserID ELSE Absent,
     mensagem |-> IF msg.Mensagem # "" THEN msg.Mensagem ELSE Absent,
     resultado |-> msg.Result,
     present |-> {"tipo"}
                 \cup (IF msg.UserID # "" THEN {"userId"} ELSE {})
                 \cup (IF msg.Mensagem # "" THEN {"mensagem"} ELSE {})
                 \cup (IF DOMAIN msg.Result # {} THEN {"resultado"} ELSE {})]

\* json.Unmarshal(m.Body, &msg) in the client: a field that is not in the
\* body keeps its zero value
Unmarshal(body) ==
    [Tipo |-> body.tipo,
     UserID |-> IF "userId" \in body.present THEN body.userId ELSE "",
     Mensagem |-> IF "mensagem" \in body.present THEN body.mensagem ELSE "",
     Result |-> IF "resultado" \in body.present THEN body.resultado ELSE EmptyMap]

\* text of the erro notification for an outcome
ErroTexto(oc) == IF oc = "AlreadyVoted" THEN "Você já votou." ELSE "Opção inválida."

----------------------------------------------------------------------------
Init ==
    /\ votos = EmptyMap
    /\ contagem = [o \in PollOptions |-> 0]
    /\ pcM = "recv"
    /\ cur = NoMsg
    /\ outcome = "None"
    /\ bodyM = NoBody
    /\ pcT = "sleep"
    /\ toRead = {}
    /\ buf = EmptyMap
    /\ bodyT = NoBody
    /\ broadcast = << >>
    /\ pubErr = FALSE
    /\ proc = "running"
    /\ recvLog = << >>
    /\ pre = <<votos, contagem>>
    /\ hist = {contagem}
    /\ readCast = {}
    /\ votosAtClose = EmptyMap
    /\ setup = "ok"

mainVars == <<votos, contagem, pcM, cur, outcome, bodyM, recvLog, pre, hist>>
timerVars == <<pcT, toRead, buf, bodyT, readCast, votosAtClose>>

----------------------------------------------------------------------------
\* Main goroutine

\* a decode failure answered with an erro notification instead of `continue`
AfterDecideErroOnDrop(oc) == IF oc = "Accepted" THEN "l111" ELSE "erro"

\* where the loop goes after deciding a message
AfterDecide(oc) ==
    CASE oc = "Dropped" -> "recv"
      [] oc = "Accepted" -> "l111"
      [] OTHER -> "erro"

\* lines 87-108: take the next message, decode it, duplicate check, validation
RecvVote ==
    /\ proc = "running"
    /\ pcM = "recv"
    /\ Len(recvLog) < MaxMsgs
    /\ \E m \in Msgs :
         LET oc == Decide(votos, m) IN
         /\ cur' = m
         /\ outcome' = oc
         /\ recvLog' = Append(recvLog, [msg |-> m, outcome |-> oc])
         /\ pcM' = AfterDecide(oc)
    /\ pre' = <<votos, contagem>>
    /\ UNCHANGED <<votos, contagem, bodyM, hist, broadcast, pubErr, proc>>
    /\ UNCHANGED <<timerVars, setup>>

\* line 111: votos[v.UserID] = v.Option
StoreVoto ==
    /\ proc = "running"
    /\ pcM = "l111"
    /\ votos' = MapSet(votos, cur.UserID, cur.Option)
    /\ pcM' = "l112"
    /\ UNCHANGED <<contagem, cur, outcome, bodyM, recvLog, pre, hist,
                   broadcast, pubErr, proc>>
    /\ UNCHANGED <<timerVars, setup>>

\* line 112, first half: the map assignment of contagem[v.Option]++ starts
\* (the runtime marks the map as being written)
IncrBegin ==
    /\ proc = "running"
    /\ pcM = "l112"
    /\ pcM' = "l112w"
    /\ UNCHANGED <<votos, contagem, cur, outcome, bodyM, recvLog, pre, hist,
                   broadcast, pubErr, proc>>
    /\ UNCHANGED <<timerVars, setup>>

\* line 112, second half: the incremented value is stored
IncrEnd ==
    /\ proc = "running"
    /\ pcM = "l112w"
    /\ contagem' = MapIncr(contagem, cur.Option)
    /\ hist' = hist \cup {contagem'}
    /\ pcM' = "conf"
    /\ UNCHANGED <<votos, cur, outcome, bodyM, recvLog, pre,
                   broadcast, pubErr, proc>>
    /\ UNCHANGED <<timerVars, setup>>

\* the message the main loop publishes at a position
MainMsg(pc) ==
    CASE pc = "erro" -> ErroMsg(cur.UserID, ErroTexto(outcome))
      [] pc = "conf" -> ConfirmacaoMsg(cur.UserID)
      [] pc = "parc" -> ParcialMsg(contagem)

\* position inside PublishWithContext for a call position
InPublish(pc) ==
    CASE pc = "erro" -> "erroPub"
      [] pc = "conf" -> "confPub"
      [] pc = "parc" -> "parcPub"

\* the loop continues right after the confirmation, the partial is left out
AfterPublishNoParcial(pc) == "recv"

\* the loop ends when a publish returns (as if its error were fatal)
AfterPublishQuit(pc) == "returned"

\* where the loop goes when a publish returns
AfterPublish(pc) ==
    CASE pc = "erroPub" -> "recv"
      [] pc = "confPub" -> "parc"
      [] pc = "parcPub" -> "recv"

\* lines 100/106/114/115 with publishJSON lines 126-131: build the message,
\* json.Marshal it, call ch.PublishWithContext
MainPublishCall ==
    /\ proc = "running"
    /\ pcM \in {"erro", "conf", "parc"}
    /\ bodyM' = Marshal(MainMsg(pcM))
    /\ pcM' = InPublish(pcM)
    /\ UNCHANGED <<votos, contagem, cur, outcome, recvLog, pre, hist,
                   broadcast, pubErr, proc>>
    /\ UNCHANGED <<timerVars, setup>>

\* publishJSON lines 131-142: PublishWithContext returns (its error is dropped)
MainPublishReturn ==
    /\ proc = "running"
    /\ pcM \in {"erroPub", "confPub", "parcPub"}
    /\ broadcast' = Append(broadcast, bodyM)
    /\ \E e \in BOOLEAN : pubErr' = e
    /\ pcM' = AfterPublish(pcM)
    /\ UNCHANGED <<votos, contagem, cur, outcome, bodyM, recvLog, pre, hist,
                   proc>>
    /\ UNCHANGED <<timerVars, setup>>

\* line 87/117: msgs is closed by the transport, the range loop ends and
\* main returns
StreamClosed ==
    /\ proc = "running"
    /\ pcM = "recv"
    /\ pcM' = "returned"
    /\ proc' = "exit0"
    /\ UNCHANGED <<votos, contagem, cur, outcome, bodyM, recvLog, pre, hist,
                   broadcast, pubErr>>
    /\ UNCHANGED <<timerVars, setup>>

----------------------------------------------------------------------------
\* Timer goroutine

\* lines 80-82 and 167-168, 126: the sleep ends, enviarFinal is called with
\* the live map contagem, publishJSON starts json.Marshal on it
TimerFire ==
    /\ proc = "running"
    /\ pcT = "sleep"
    /\ pcT' = "marshal"
    /\ toRead' = DOMAIN contagem
    /\ buf' = EmptyMap
    /\ votosAtClose' = votos
    /\ UNCHANGED <<bodyT, readCast, broadcast, pubErr, proc>>
    /\ UNCHANGED <<mainVars, setup>>

\* line 129: json.Marshal visits one key of the map. When the main goroutine
\* is inside its map assignment the runtime may see the write flag and abort
\* the process ("concurrent map iteration and map write"), or miss it and
\* read the stored value.
TimerReadKey ==
    /\ proc = "running"
    /\ pcT = "marshal"
    /\ \E k \in toRead :
         \/ /\ buf' = MapSet(buf, k, MapGet0(contagem, k))
            /\ toRead' = toRead \ {k}
            /\ readCast' = readCast \cup {Cardinality(DOMAIN votos)}
            /\ UNCHANGED proc
         \/ /\ pcM = "l112w"
            /\ proc' = "fatal"
            /\ UNCHANGED <<buf, toRead, readCast>>
    /\ UNCHANGED <<pcT, bodyT, votosAtClose, broadcast, pubErr>>
    /\ UNCHANGED <<mainVars, setup>>

\* lines 129-131: the body is complete, ch.PublishWithContext is called
TimerPublishCall ==
    /\ proc = "running"
    /\ pcT = "marshal"
    /\ toRead = {}
    /\ bodyT' = Marshal(FinalMsg(buf))
    /\ pcT' = "finalPub"
    /\ UNCHANGED <<toRead, buf, readCast, votosAtClose, broadcast, pubErr, proc>>
    /\ UNCHANGED <<mainVars, setup>>

\* lines 131-142, 172: PublishWithContext returns, enviarFinal logs
TimerPublishReturn ==
    /\ proc = "running"
    /\ pcT = "finalPub"
    /\ broadcast' = Append(broadcast, bodyT)
    /\ \E e \in BOOLEAN : pubErr' = e
    /\ pcT' = "exit"
    /\ UNCHANGED <<toRead, buf, bodyT, readCast, votosAtClose, proc>>
    /\ UNCHANGED <<mainVars, setup>>

\* the goroutine ends without os.Exit(0)
TimerExitMissing ==
    /\ proc = "running"
    /\ pcT = "exit"
    /\ pcT' = "done"
    /\ UNCHANGED <<toRead, buf, bodyT, readCast, votosAtClose, broadcast, pubErr,
                   proc>>
    /\ UNCHANGED <<mainVars, setup>>

\* line 83: os.Exit(0)
TimerExit ==
    /\ proc = "running"
    /\ pcT = "exit"
    /\ pcT' = "done"
    /\ proc' = "exit0"
    /\ UNCHANGED <<toRead, buf, bodyT, readCast, votosAtClose, broadcast, pubErr>>
    /\ UNCHANGED <<mainVars, setup>>

----------------------------------------------------------------------------
Next ==
    \/ RecvVote
    \/ StoreVoto
    \/ IncrBegin
    \/ IncrEnd
    \/ MainPublishCall
    \/ MainPublishReturn
    \/ StreamClosed
    \/ TimerFire
    \/ TimerReadKey
    \/ TimerPublishCall
    \/ TimerPublishReturn
    \/ TimerExit

Spec == Init /\ [][Next]_vars

----------------------------------------------------------------------------
\* Startup (lines 42-69)

\* the transport calls of startup, in the order main makes them
StartupCalls ==
    <<"Dial", "Channel", "ExchangeDeclare votos", "ExchangeDeclare broadcast",
      "QueueDeclare", "QueueBind", "Consume">>

StartupCallSet == {StartupCalls[i] : i \in 1..Len(StartupCalls)}

\* the Consume error left unchecked, like those of the declarations
FatalCallsNoConsume == {"Dial", "Channel"}

\* the calls whose error main checks with log.Fatalf (lines 44, 51, 67); the
\* results of lines 58, 59, 62 and 63 are discarded
FatalCalls == {"Dial", "Channel", "Consume"}

\* position of a call in startup
CallIndex(f) == CHOOSE i \in 1..Len(StartupCalls) : StartupCalls[i] = f

\* log.Fatalf is reached when call f is the first to fail: a failed connect
\* leaves no connection, and a failed channel operation closes the channel
\* (an AMQP channel exception), so every later call on it fails as well
ReachesFatalf(f) ==
    \E j \in CallIndex(f)..Len(StartupCalls) : StartupCalls[j] \in FatalCalls

\* the process before main has run
InitBoot ==
    /\ votos = EmptyMap
    /\ contagem = [o \in PollOptions |-> 0]
    /\ pcM = "boot"
    /\ cur = NoMsg
    /\ outcome = "None"
    /\ bodyM = NoBody
    /\ pcT = "unborn"
    /\ toRead = {}
    /\ buf = EmptyMap
    /\ bodyT = NoBody
    /\ broadcast = << >>
    /\ pubErr = FALSE
    /\ proc = "running"
    /\ recvLog = << >>
    /\ pre = <<votos, contagem>>
    /\ hist = {contagem}
    /\ readCast = {}
    /\ votosAtClose = EmptyMap
    /\ setup = "boot"

\* lines 42-84: connect, open the channel, declare the exchanges and the
\* queue, bind it, start consuming; f is the first call that fails, if any.
\* log.Fatalf ends the process with status 1; otherwise main goes on to create
\* the maps and start the timer goroutine.
Startup ==
    /\ proc = "running"
    /\ pcM = "boot"
    /\ \E f \in StartupCallSet \cup {"ok"} :
         /\ setup' = f
         /\ IF f # "ok" /\ ReachesFatalf(f)
            THEN /\ proc' = "exit1"
                 /\ pcM' = "fatalf"
                 /\ UNCHANGED pcT
            ELSE /\ pcM' = "recv"
                 /\ pcT' = "sleep"
                 /\ UNCHANGED proc
    /\ UNCHANGED <<votos, contagem, cur, outcome, bodyM, toRead, buf, bodyT,
                   broadcast, pubErr, recvLog, pre, hist, readCast, votosAtClose>>

NextBoot == Startup \/ Next

\* the server from process start
BootSpec == InitBoot /\ [][NextBoot]_vars

\* a step of the timer goroutine once its sleep has ended
TimerStep == TimerReadKey \/ TimerPublishCall \/ TimerPublishReturn \/ TimerExit

\* The Go scheduler keeps running the woken timer goroutine, and its
\* PublishWithContext returns: the call carries a context that expires after
\* 2 seconds (line 126).
FairSpec == Spec /\ WF_vars(TimerStep)

----------------------------------------------------------------------------
\* Vocabulary of the properties

\* the broadcast bodies of one kind
OfTipo(t) == {i \in 1..Len(broadcast) : broadcast[i].tipo = t}

\* the Accepted entries of the receive history
AcceptedIdx == {i \in 1..Len(recvLog) : recvLog[i].outcome = "Accepted"}

\* an earlier message of voter u was Accepted
AcceptedBefore(u) ==
    \E i \in 1..(Len(recvLog) - 1) :
        recvLog[i].outcome = "Accepted" /\ recvLog[i].msg.UserID = u

\* no message is being handled: the loop waits for the next one, or has ended
LoopIdle == pcM \in {"recv", "returned"}

\* the main goroutine is inside ch.PublishWithContext
MainInPublish == pcM \in {"erroPub", "confPub", "parcPub"}

\* the timer's json.Marshal has finished: the final body exists
FinalBuilt == pcT \in {"finalPub", "exit", "done"}

\* number of voters recorded with option o in a votos map
VotersOf(vs, o) == Cardinality({u \in DOMAIN vs : vs[u] = o})

----------------------------------------------------------------------------
\* C1: once a vote of voter v was Accepted, every later vote message of v,
\* whatever its option and whatever other voters did in between, is decided
\* AlreadyVoted, and while and after it is handled votos and contagem are
\* what they were when it was received.
C1_IdempotentRegistration ==
    (cur.ok /\ AcceptedBefore(cur.UserID)) =>
        /\ outcome = "AlreadyVoted"
        /\ votos = pre[1]
        /\ contagem = pre[2]

\* a duplicate with an invalid option was handled to the end
C1_Witness ==
    /\ Len(recvLog) = 2
    /\ recvLog[1].outcome = "Accepted"
    /\ cur = recvLog[2].msg
    /\ cur.UserID = recvLog[1].msg.UserID
    /\ cur.Option = "Z"
    /\ outcome = "AlreadyVoted"
    /\ pcM = "recv"
    /\ Cardinality(OfTipo("erro")) = 1

\* C2: a vote of a voter not yet registered whose option is none of A, B, C
\* is decided InvalidOption; contagem keeps its keys and values and votos is
\* unchanged, the voter stays unregistered, and a later vote of the same voter
\* with a valid option is Accepted.
C2_OptionValidation ==
    /\ (cur.ok /\ cur.UserID \notin DOMAIN pre[1] /\ cur.Option \notin PollOptions) =>
          /\ outcome = "InvalidOption"
          /\ votos = pre[1]
          /\ contagem = pre[2]
          /\ DOMAIN contagem = PollOptions
          /\ cur.UserID \notin DOMAIN votos
    /\ \A i \in 1..(Len(recvLog) - 1) :
          ( /\ recvLog[i].outcome = "InvalidOption"
            /\ recvLog[i + 1].msg.ok
            /\ recvLog[i + 1].msg.UserID = recvLog[i].msg.UserID
            /\ recvLog[i + 1].msg.Option \in PollOptions )
          => recvLog[i + 1].outcome = "Accepted"

\* a voter voted Z and then B: the second vote is registered
C2_Witness ==
    /\ Len(recvLog) = 2
    /\ recvLog[1].outcome = "InvalidOption"
    /\ recvLog[1].msg.Option = "Z"
    /\ recvLog[2].outcome = "Accepted"
    /\ recvLog[2].msg.UserID = recvLog[1].msg.UserID
    /\ pcM = "recv"
    /\ Sum(contagem) = 1

\* C3: the payload of every partial and of the final notification sums to the
\* number of voters in votos at the instant it was read (for the final: at
\* one of the instants of the timer's reads).
C3_ConservationAtSnapshots ==
    /\ pcM = "parcPub" => Sum(bodyM.resultado) = Cardinality(DOMAIN votos)
    /\ FinalBuilt => Sum(bodyT.resultado) \in readCast

\* C4: the payload of the final notification is the value contagem had at one
\* single instant of the run.
C4_FinalIsOneState == FinalBuilt => bodyT.resultado \in hist

\* C5: once the deadline has elapsed the process ends only by the timer's
\* exit with code 0, after exactly one final notification was published.
C5_TimeoutFinalization ==
    (pcT # "sleep" /\ proc # "running") =>
        /\ proc = "exit0"
        /\ pcT = "done"
        /\ Cardinality(OfTipo("final")) = 1

\* C6: the final payload counts, for every option, no vote registered after
\* the timer woke up and took the tally for enviarFinal.
C6_NoVoteAfterSnapshot ==
    FinalBuilt =>
        \A o \in DOMAIN bodyT.resultado :
            bodyT.resultado[o] <= VotersOf(votosAtClose, o)

\* the messages received so far have distinct voters and valid options
DistinctValid ==
    /\ \A i \in 1..Len(recvLog) :
          recvLog[i].msg.ok /\ recvLog[i].msg.Option \in PollOptions
    /\ \A i, j \in 1..Len(recvLog) :
          i # j => recvLog[i].msg.UserID # recvLog[j].msg.UserID

\* C7: when the K messages handled so far have K distinct voters and valid
\* options, exactly K were Accepted and contagem sums to K, in every delivery
\* order and wherever the timer is.
C7_ConcurrentCorrectness ==
    (LoopIdle /\ DistinctValid) =>
        /\ Cardinality(AcceptedIdx) = Len(recvLog)
        /\ Sum(contagem) = Len(recvLog)
        /\ Cardinality(DOMAIN votos) = Len(recvLog)

\* two votes for the same option were handled while the timer was at work
C7_Witness ==
    /\ LoopIdle
    /\ DistinctValid
    /\ Len(recvLog) = 2
    /\ recvLog[1].msg.Option = recvLog[2].msg.Option
    /\ pcT = "finalPub"

\* C8: two publish calls are never inside ch.PublishWithContext at once.
C8_PublishSerialized == ~(MainInPublish /\ pcT = "finalPub")

\* what the handling of the current Accepted vote has still to emit
ConfPending ==
    IF outcome = "Accepted" /\ pcM \in {"l111", "l112", "l112w", "conf", "confPub"}
    THEN 1 ELSE 0
ParcPending ==
    IF outcome = "Accepted" /\ ~LoopIdle THEN 1 ELSE 0

\* the bodies the main loop published, in order
RECURSIVE MainBodies(_)
MainBodies(s) ==
    IF s = << >> THEN << >>
    ELSE IF s[1].tipo = "final" THEN MainBodies(Tail(s))
    ELSE <<s[1]>> \o MainBodies(Tail(s))

\* C9: each Accepted vote gets exactly one confirmation carrying its voter id
\* and then exactly one partial, in that order, and the partial's payload is
\* the tally after the increment: its count of the chosen option is one more
\* than before the registration.
C9_ConfirmationThenPartial ==
    /\ Cardinality(OfTipo("confirmacao")) = Cardinality(AcceptedIdx) - ConfPending
    /\ Cardinality(OfTipo("parcial")) = Cardinality(AcceptedIdx) - ParcPending
    /\ \A i \in AcceptedIdx :
          Cardinality({k \in OfTipo("confirmacao") :
                          Unmarshal(broadcast[k]).UserID = recvLog[i].msg.UserID})
            = IF i = Len(recvLog) THEN 1 - ConfPending ELSE 1
    /\ (outcome = "Accepted" /\ LoopIdle) =>
          LET mb == MainBodies(broadcast)
              n == Len(mb)
          IN /\ n >= 2
             /\ mb[n - 1].tipo = "confirmacao"
             /\ Unmarshal(mb[n - 1]).UserID = cur.UserID
             /\ mb[n].tipo = "parcial"
             /\ Unmarshal(mb[n]).Result = contagem
             /\ Unmarshal(mb[n]).Result[cur.Option] = pre[2][cur.Option] + 1
             /\ Unmarshal(mb[n]).Result[cur.Option] >= 1

\* the second Accepted vote has been confirmed and its partial published
C9_Witness ==
    /\ outcome = "Accepted"
    /\ pcM = "recv"
    /\ Cardinality(AcceptedIdx) = 2
    /\ Cardinality(OfTipo("parcial")) = 2

\* C10: for every option, the counts carried by the partial notifications,
\* in the order they were published, never decrease.
C10_PartialMonotonic ==
    \A i, j \in OfTipo("parcial") :
        i < j => \A o \in PollOptions :
                    Unmarshal(broadcast[i]).Result[o] <= Unmarshal(broadcast[j]).Result[o]

\* two partials with different tallies have been published
C10_Witness ==
    \E i, j \in OfTipo("parcial") :
        i < j /\ broadcast[i].resultado # broadcast[j].resultado

\* the rejected entries of the receive history
RejectedIdx ==
    {i \in 1..Len(recvLog) : recvLog[i].outcome \in {"AlreadyVoted", "InvalidOption"}}

\* what the handling of the current rejected vote has still to emit
ErroPending ==
    IF outcome \in {"AlreadyVoted", "InvalidOption"} /\ pcM \in {"erro", "erroPub"}
    THEN 1 ELSE 0

\* C11: a vote rejected as AlreadyVoted or InvalidOption gets exactly one
\* erro notification, carrying the vote's voter id and the text of its
\* rejection, and neither a confirmation nor a partial; after it the loop is
\* back at receiving the next message.
C11_RejectionNotifiesVoter ==
    /\ Cardinality(OfTipo("erro")) = Cardinality(RejectedIdx) - ErroPending
    /\ Cardinality(OfTipo("confirmacao")) <= Cardinality(AcceptedIdx)
    /\ Cardinality(OfTipo("parcial")) <= Cardinality(AcceptedIdx)
    /\ outcome \in {"AlreadyVoted", "InvalidOption"} =>
          /\ pcM \in {"erro", "erroPub", "recv", "returned"}
          /\ LoopIdle =>
                LET mb == MainBodies(broadcast)
                    last == Unmarshal(mb[Len(mb)])
                IN /\ Len(mb) >= 1
                   /\ last.Tipo = "erro"
                   /\ last.UserID = cur.UserID
                   /\ last.Result = EmptyMap
                   /\ outcome = "AlreadyVoted" => last.Mensagem = "Você já votou."
                   /\ outcome = "InvalidOption" => last.Mensagem = "Opção inválida."

\* a rejected vote was answered and the loop then took and rejected the next
\* message, of the voter with the empty id
C11_Witness ==
    /\ Len(recvLog) = 2
    /\ recvLog[1].outcome = "InvalidOption"
    /\ recvLog[2].outcome = "InvalidOption"
    /\ recvLog[1].msg.UserID = "alice"
    /\ recvLog[2].msg.UserID = ""
    /\ pcM = "recv"
    /\ Cardinality(OfTipo("erro")) = 2
    /\ Len(broadcast) = 2

\* number of bodies the loop has published
MainCount == Len(broadcast) - Cardinality(OfTipo("final"))

\* C12: a malformed vote body is dropped: nothing is published for it, votos
\* and contagem are unchanged, and the loop is back at receiving the next
\* message.
C12_MalformedDropped ==
    /\ outcome = "Dropped" =>
          /\ LoopIdle
          /\ votos = pre[1]
          /\ contagem = pre[2]
    /\ LoopIdle =>
          MainCount = 2 * Cardinality(AcceptedIdx) + Cardinality(RejectedIdx)

\* a malformed body was dropped after an accepted vote
C12_Witness ==
    /\ Len(recvLog) = 2
    /\ recvLog[1].outcome = "Accepted"
    /\ recvLog[2].outcome = "Dropped"
    /\ cur = Malformed
    /\ pcM = "recv"
    /\ Len(broadcast) = 2

\* C13: a publish of the loop that fails changes neither votos nor contagem
\* and does not stop the loop: the process keeps running and the loop goes on
\* to its next step (the partial after a confirmation, else the next message),
\* and every vote registered so far is still in votos.
C13_PublishFaultIsLocal ==
    [][ (MainInPublish /\ ~MainInPublish' /\ pubErr') =>
            /\ votos' = votos
            /\ contagem' = contagem
            /\ proc' = "running"
            /\ pcM' = (IF pcM = "confPub" THEN "parc" ELSE "recv")
            /\ \A i \in AcceptedIdx :
                  /\ recvLog[i].msg.UserID \in DOMAIN votos'
                  /\ votos'[recvLog[i].msg.UserID] = recvLog[i].msg.Option
      ]_vars

\* after failed publishes for the first vote the loop has registered a second
\* one
C13_Witness ==
    /\ pubErr
    /\ pcT = "sleep"
    /\ Cardinality(AcceptedIdx) = 2
    /\ Cardinality(DOMAIN votos) = 2
    /\ pcM = "conf"

\* C14: once the deadline has elapsed the process eventually terminates,
\* whatever the loop is doing and whether the publishes succeed or fail.
C14_DeadlineTerminates == (pcT # "sleep") ~> (proc # "running")

\* the timer has ended the process while the loop was inside a publish and
\* the final publish had failed
C14_Witness ==
    /\ proc = "exit0"
    /\ pcT = "done"
    /\ pubErr
    /\ MainInPublish
    /\ Cardinality(OfTipo("final")) = 1

C16_WorkersInParallel ==
    (MainInPublish /\ proc = "running" /\ Len(recvLog) < MaxMsgs) => ENABLED RecvVote

\* C17: a voter id once in votos stays in votos with the option recorded
\* first, whatever messages follow.
C17_FirstVoteWins ==
    [][ \A u \in DOMAIN votos : u \in DOMAIN votos' /\ votos'[u] = votos[u] ]_vars

\* a registered voter's second vote, for another valid option, was handled
C17_Witness ==
    /\ Len(recvLog) = 2
    /\ recvLog[1].msg.UserID = recvLog[2].msg.UserID
    /\ recvLog[1].msg.Option = "A"
    /\ recvLog[2].msg.Option = "B"
    /\ recvLog[2].msg.UserID \in DOMAIN votos
    /\ votos[recvLog[2].msg.UserID] = "A"
    /\ LoopIdle

\* C18: after every completed step of the loop contagem[o] is the number of
\* voters recorded with option o, for each of A, B, C, and an Accepted vote
\* has raised the count of its option by 1 and no other count.
C18_TallyMatchesVotes ==
    LoopIdle =>
        /\ DOMAIN contagem = PollOptions
        /\ \A o \in PollOptions : contagem[o] = VotersOf(votos, o)
        /\ outcome = "Accepted" =>
              contagem = [pre[2] EXCEPT ![cur.Option] = pre[2][cur.Option] + 1]

\* two votes for the same option have been registered
C18_Witness ==
    /\ pcM = "recv"
    /\ outcome = "Accepted"
    /\ \E o \in PollOptions : contagem[o] = 2
    /\ Cardinality(DOMAIN votos) = 2

\* C19: however often and in whatever order a voter's messages arrive, at
\* most one confirmation is ever published for that voter and the counts sum
\* to no more than the number of voters registered.
C19_OncePerVoter ==
    /\ \A u \in Voters :
          Cardinality({k \in OfTipo("confirmacao") : Unmarshal(broadcast[k]).UserID = u}) <= 1
    /\ Sum(contagem) <= Cardinality(DOMAIN votos)
    /\ Cardinality(DOMAIN votos) <= Cardinality({recvLog[i].msg.UserID : i \in 1..Len(recvLog)})

\* the same valid vote was delivered twice and handled twice
C19_Witness ==
    /\ Len(recvLog) = 2
    /\ recvLog[1].msg = recvLog[2].msg
    /\ recvLog[1].msg.ok
    /\ recvLog[1].msg.Option \in PollOptions
    /\ pcM = "recv"
    /\ Cardinality(OfTipo("confirmacao")) = 1
    /\ Sum(contagem) = 1

\* C20: the final notification is the last broadcast: no body is published
\* after it.
C20_FinalIsLast == \A i \in OfTipo("final") : i = Len(broadcast)

\* C21: for every option, the count carried by the final notification is at
\* least the count carried by every partial notification published before it.
C21_FinalNotBelowPartials ==
    \A f \in OfTipo("final") :
        \A p \in OfTipo("parcial") :
            p < f => \A o \in PollOptions :
                        MapGet0(Unmarshal(broadcast[f]).Result, o)
                            >= MapGet0(Unmarshal(broadcast[p]).Result, o)

\* C22: after a successful startup the process ends only through the timer:
\* whenever it has ended, the timer goroutine has reached its exit and the
\* final notification was published before.
C22_OnlyTimerTerminates ==
    proc # "running" =>
        /\ pcT = "done"
        /\ OfTipo("final") # {}

====
